---- MODULE Spec2Model ----
(***************************************************************************)
(* A model of the FastAPI template of the Universal DevTools Framework:    *)
(*   src/src/plugins/python/templates/fastapi/app/config.py  (Settings)    *)
(*   src/demo/python-app/app/main.py                         (app, root)   *)
(*                                                                         *)
(* The state is the process environment (os.environ and the optional .env  *)
(* file) that Settings reads, the health router module that main.py        *)
(* imports, the two modules' load state, the two module-level singletons   *)
(* (settings, app), the last HTTP response and the outcome of the last     *)
(* call of Settings() since the environment changed.  Settings derives     *)
(* from pydantic_settings.BaseSettings with no model_config beyond         *)
(* env_file, so the library defaults apply: empty env_prefix, case-        *)
(* insensitive names, extra = "forbid", lax coercion of strings.           *)
(***************************************************************************)
EXTENDS Integers, Sequences, FiniteSets, TLC

VARIABLES environ, dotenv, health_module, proc, config_mod, settings,
          main_mod, app, response, last

vars == <<environ, dotenv, health_module, proc, config_mod, settings,
          main_mod, app, response, last>>

----------------------------------------------------------------------------
(* Values *)

\* A variable that is not set / a keyword argument that is not passed.
Absent == "<absent>"

\* A name that is not bound (module attribute before or without assignment).
None == [kind |-> "None"]

\* Names an environment variable or a .env entry may carry.  EXTRA stands
\* for any key that is not a settings field.
EnvKeys == {"APP_NAME", "DEBUG", "EXTRA"}

\* Values an environment variable or a .env entry may carry, per key.
EnvValues(k) ==
    CASE k = "APP_NAME" -> {"Shop", "Api"}
      [] k = "DEBUG"    -> {"true", "0", "maybe"}
      [] OTHER          -> {"x"}

\* All assignments of the keys: each absent or one of its values.
EnvMaps == { m \in [EnvKeys -> {Absent, "Shop", "Api", "true", "0", "maybe", "x"}] :
               \A k \in EnvKeys : m[k] = Absent \/ m[k] \in EnvValues(k) }

NoVars == [k \in EnvKeys |-> Absent]

\* The optional .env file of the working directory.
NoFile == [exists |-> FALSE, vars |-> NoVars]

DotEnvFiles == {NoFile} \cup { [exists |-> TRUE, vars |-> m] : m \in EnvMaps }

\* class Settings: the declared fields and their defaults.
FieldNames == {"app_name", "debug"}

DefaultAppName == "My FastAPI App"

DefaultDebug == FALSE

\* How many times in a row the model repeats one call of Settings(**kw)
\* in an unchanged environment.
MaxRepeat == 2

\* Keyword arguments a caller may pass to Settings(...).
NoKwargs == [app_name |-> Absent, debug |-> Absent]

KwargsChoices == { NoKwargs,
                   [app_name |-> "Cli", debug |-> Absent],
                   [app_name |-> Absent, debug |-> "0"] }

----------------------------------------------------------------------------
(* Settings() *)

\* case_sensitive = False: names are compared lower-cased.
Lower(k) ==
    CASE k = "APP_NAME" -> "app_name"
      [] k = "DEBUG"    -> "debug"
      [] k = "EXTRA"    -> "extra"
      [] OTHER          -> k

\* The value a key/value source holds for a field (Absent when none).
Lookup(m, f) ==
    IF \E k \in EnvKeys : Lower(k) = f /\ m[k] # Absent
    THEN m[CHOOSE k \in EnvKeys : Lower(k) = f /\ m[k] # Absent]
    ELSE Absent

\* The environment-variable source: only the declared fields are looked up.
EnvSource(env) == [f \in FieldNames |-> Lookup(env, f)]

\* Faulty variant of ReadDotEnv: a missing .env file is an error.
ReadDotEnv_required(file) ==
    IF file.exists THEN [ok |-> TRUE, vars |-> file.vars]
    ELSE [ok |-> FALSE, vars |-> NoVars]

\* env_file = ".env": the entries of the file; a file that does not exist
\* is skipped and reads as no entries.
ReadDotEnv(file) ==
    IF file.exists THEN [ok |-> TRUE, vars |-> file.vars]
    ELSE [ok |-> TRUE, vars |-> NoVars]

\* The .env source: the declared fields among the file's entries.
DotEnvSource(file) == [f \in FieldNames |-> Lookup(ReadDotEnv(file).vars, f)]

\* The .env source also hands over every entry that is not a field; the
\* model's extra = "forbid" then rejects the construction.
DotEnvExtras(file) ==
    { Lower(k) : k \in { j \in EnvKeys : ReadDotEnv(file).vars[j] # Absent
                                          /\ Lower(j) \notin FieldNames } }

\* Faulty variant of Resolve: the .env entry is preferred to the
\* environment variable.
Resolve_dotenv_first(f, kw, env, file) ==
    IF kw[f] # Absent THEN kw[f]
    ELSE IF DotEnvSource(file)[f] # Absent THEN DotEnvSource(file)[f]
    ELSE EnvSource(env)[f]

\* The raw value of a field: keyword argument, then environment variable,
\* then .env entry; Absent when none supplies it (the default applies).
Resolve(f, kw, env, file) ==
    IF kw[f] # Absent THEN kw[f]
    ELSE IF EnvSource(env)[f] # Absent THEN EnvSource(env)[f]
    ELSE DotEnvSource(file)[f]

TrueTokens == {"1", "true", "t", "yes", "y", "on"}

FalseTokens == {"0", "false", "f", "no", "n", "off"}

\* Faulty variant of CoerceBool: a token that is not truthy reads as False
\* instead of being rejected.
CoerceBool_lenient(v) ==
    IF v \in TrueTokens THEN [ok |-> TRUE, val |-> TRUE]
    ELSE [ok |-> TRUE, val |-> FALSE]

\* debug: bool -- lax validation of a string.
CoerceBool(v) ==
    IF v \in TrueTokens THEN [ok |-> TRUE, val |-> TRUE]
    ELSE IF v \in FalseTokens THEN [ok |-> TRUE, val |-> FALSE]
    ELSE [ok |-> FALSE, val |-> FALSE]

\* app_name: str -- every string is accepted as it is.
CoerceStr(v) == [ok |-> TRUE, val |-> v]

\* The outcome of a construction that raised ValidationError.
Failed == [ok |-> FALSE]

\* Settings(**kw) evaluated against an environment and a .env file.
SettingsOf(kw, env, file) ==
    LET rawName  == Resolve("app_name", kw, env, file)
        rawDebug == Resolve("debug", kw, env, file)
        name     == IF rawName = Absent
                    THEN [ok |-> TRUE, val |-> DefaultAppName]
                    ELSE CoerceStr(rawName)
        dbg      == IF rawDebug = Absent
                    THEN [ok |-> TRUE, val |-> DefaultDebug]
                    ELSE CoerceBool(rawDebug)
    IN  IF ReadDotEnv(file).ok /\ name.ok /\ dbg.ok /\ DotEnvExtras(file) = {}
        THEN [ok |-> TRUE, app_name |-> name.val, debug |-> dbg.val]
        ELSE Failed

----------------------------------------------------------------------------
(* The application module *)

\* app = FastAPI(title=..., description=..., version=...)
NewApp == [title       |-> "My FastAPI App",
           description |-> "Created with DevTools Framework",
           version     |-> "1.0.0",
           routes      |-> << >>]

\* app.include_router(health.router) / @app.get("/"): append to the registry.
Register(a, r) == [a EXCEPT !.routes = Append(@, r)]

\* Faulty variant of root: the payload depends on the settings singleton.
root_from_settings ==
    [message |-> IF settings # None /\ settings.debug
                 THEN "Welcome to FastAPI (debug)"
                 ELSE "Welcome to FastAPI",
     docs |-> "/docs", health |-> "/health"]

\* async def root(): the value the handler returns.
root == [message |-> "Welcome to FastAPI", docs |-> "/docs", health |-> "/health"]

\* The paths a client asks for.
Paths == {"/", "/nope"}

\* Whether a route of the registry serves the path.
Routed(a, path) == \E i \in 1..Len(a.routes) : a.routes[i] = path

----------------------------------------------------------------------------
(* Initial state *)

\* The process starts with any environment and any .env file.  The module
\* app.routes.health is importable with a router ("ok"), fails to import
\* ("missing": absent, or raising while it loads), or imports without a
\* usable router attribute ("malformed").
Init ==
    /\ environ \in EnvMaps
    /\ dotenv \in DotEnvFiles
    /\ health_module \in {"ok", "missing", "malformed"}
    /\ proc = "running"
    /\ config_mod = "unloaded"
    /\ settings = None
    /\ main_mod = "unloaded"
    /\ app = None
    /\ response = None
    /\ last = None

----------------------------------------------------------------------------
(* Actions *)

\* The environment sets or unsets a variable.
SetEnv(k, v) ==
    /\ proc = "running"
    /\ environ[k] # v
    /\ environ' = [environ EXCEPT ![k] = v]
    /\ last' = None
    /\ UNCHANGED <<dotenv, health_module, proc, config_mod, settings,
                   main_mod, app, response>>

\* The .env file is created or edited: one entry is set or deleted.
WriteDotEnv(k, v) ==
    /\ proc = "running"
    /\ dotenv' = [exists |-> TRUE, vars |-> [dotenv.vars EXCEPT ![k] = v]]
    /\ dotenv' # dotenv
    /\ last' = None
    /\ UNCHANGED <<environ, health_module, proc, config_mod, settings,
                   main_mod, app, response>>

\* The .env file is removed.
RemoveDotEnv ==
    /\ proc = "running"
    /\ dotenv.exists
    /\ dotenv' = NoFile
    /\ last' = None
    /\ UNCHANGED <<environ, health_module, proc, config_mod, settings,
                   main_mod, app, response>>

\* The calls of Settings(**kw) made in a row since the environment changed.
Repeats(kw) == IF last # None /\ last.kw = kw THEN last.n ELSE 0

\* Faulty variant of Construct: after reading, the entries of the .env file
\* are exported into os.environ, overriding what is there.
Construct_exporting(kw) ==
    /\ proc = "running"
    /\ Repeats(kw) < MaxRepeat
    /\ last' = [kw |-> kw, result |-> SettingsOf(kw, environ, dotenv),
                n |-> Repeats(kw) + 1]
    /\ environ' = [k \in EnvKeys |-> IF ReadDotEnv(dotenv).vars[k] # Absent
                                      THEN ReadDotEnv(dotenv).vars[k]
                                      ELSE environ[k]]
    /\ UNCHANGED <<dotenv, health_module, proc, config_mod, settings,
                   main_mod, app, response>>

\* A caller evaluates Settings(**kw); a ValidationError is its outcome.
Construct(kw) ==
    /\ proc = "running"
    /\ Repeats(kw) < MaxRepeat
    /\ last' = [kw |-> kw, result |-> SettingsOf(kw, environ, dotenv),
                n |-> Repeats(kw) + 1]
    /\ UNCHANGED <<environ, dotenv, health_module, proc, config_mod, settings,
                   main_mod, app, response>>

\* Faulty variant of LoadConfig: the module body runs again on a later
\* import, rebinding settings from the environment of that moment.
LoadConfig_reloading ==
    /\ proc = "running"
    /\ LET r == SettingsOf(NoKwargs, environ, dotenv)
       IN  /\ last' = [kw |-> NoKwargs, result |-> r, n |-> 1]
           /\ IF r.ok
              THEN /\ settings' = r
                   /\ config_mod' = "loaded"
                   /\ proc' = proc
              ELSE /\ settings' = None
                   /\ config_mod' = "failed"
                   /\ proc' = "exited"
    /\ UNCHANGED <<environ, dotenv, health_module, main_mod, app, response>>

\* First import of app.config: settings = Settings() at module level.  The
\* exception of a failed construction is caught nowhere: the process ends.
LoadConfig ==
    /\ proc = "running"
    /\ config_mod = "unloaded"
    /\ LET r == SettingsOf(NoKwargs, environ, dotenv)
       IN  /\ last' = [kw |-> NoKwargs, result |-> r, n |-> Repeats(NoKwargs) + 1]
           /\ IF r.ok
              THEN /\ settings' = r
                   /\ config_mod' = "loaded"
                   /\ proc' = proc
              ELSE /\ settings' = None
                   /\ config_mod' = "failed"
                   /\ proc' = "exited"
    /\ UNCHANGED <<environ, dotenv, health_module, main_mod, app, response>>

\* Faulty variant of LoadMain: a failing health router is skipped and the
\* root route is registered all the same.
LoadMain_tolerant ==
    /\ proc = "running"
    /\ main_mod = "unloaded"
    /\ app' = IF health_module = "ok"
              THEN Register(Register(NewApp, "health.router"), "/")
              ELSE Register(NewApp, "/")
    /\ main_mod' = "loaded"
    /\ UNCHANGED <<environ, dotenv, health_module, proc, config_mod, settings,
                   response, last>>

\* First import of app.main: import health, build app, include the router,
\* register root.  A failing line ends the import and the process.
LoadMain ==
    /\ proc = "running"
    /\ main_mod = "unloaded"
    /\ CASE health_module = "missing" ->
              \* line 5 raises ImportError
              /\ app' = None
              /\ main_mod' = "failed"
              /\ proc' = "exited"
         [] health_module = "malformed" ->
              \* line 14 raises: app was built, nothing was registered
              /\ app' = NewApp
              /\ main_mod' = "failed"
              /\ proc' = "exited"
         [] OTHER ->
              /\ app' = Register(Register(NewApp, "health.router"), "/")
              /\ main_mod' = "loaded"
              /\ proc' = proc
    /\ UNCHANGED <<environ, dotenv, health_module, config_mod, settings,
                   response, last>>

\* Faulty variant of Request: handling a request touches the application
\* object (the served path is registered once more).
Request_registering(path) ==
    /\ proc = "running"
    /\ main_mod = "loaded"
    /\ Len(app.routes) < 4
    /\ response' = IF Routed(app, path) /\ path = "/"
                   THEN [path |-> path, status |-> 200, body |-> root]
                   ELSE [path |-> path, status |-> 404, body |-> [detail |-> "Not Found"]]
    /\ app' = Register(app, path)
    /\ UNCHANGED <<environ, dotenv, health_module, proc, config_mod, settings,
                   main_mod, last>>

\* The framework dispatches GET path to the application.
Request(path) ==
    /\ proc = "running"
    /\ main_mod = "loaded"
    /\ response' = IF Routed(app, path) /\ path = "/"
                   THEN [path |-> path, status |-> 200, body |-> root]
                   ELSE [path |-> path, status |-> 404, body |-> [detail |-> "Not Found"]]
    /\ UNCHANGED <<environ, dotenv, health_module, proc, config_mod, settings,
                   main_mod, app, last>>

Next ==
    \/ \E k \in EnvKeys : \E v \in EnvValues(k) \cup {Absent} : SetEnv(k, v)
    \/ \E k \in EnvKeys : \E v \in EnvValues(k) \cup {Absent} : WriteDotEnv(k, v)
    \/ RemoveDotEnv
    \/ \E kw \in KwargsChoices : Construct(kw)
    \/ LoadConfig
    \/ LoadMain
    \/ \E path \in Paths : Request(path)

Spec == Init /\ [][Next]_vars

----------------------------------------------------------------------------
(* Properties *)

\* The entry of the .env file for a key (Absent without file or entry).
FileVar(k) == IF dotenv.exists THEN dotenv.vars[k] ELSE Absent

\* The value the environment supplies for a key: the environment variable,
\* else the .env entry.
Supplied(k) == IF environ[k] # Absent THEN environ[k] ELSE FileVar(k)

\* C1: every answer to GET / has status 200 and exactly the three-field
\* body, whatever the settings singleton holds (or whether it exists).
C1_RootResponse ==
    (response # None /\ response.path = "/") =>
        /\ response.status = 200
        /\ response.body = [message |-> "Welcome to FastAPI",
                            docs    |-> "/docs",
                            health  |-> "/health"]

\* C1 witness: GET / was answered while settings holds non-default values.
C1_Witness ==
    /\ response # None /\ response.path = "/"
    /\ settings # None /\ settings.debug /\ settings.app_name = "Shop"

C3_Defaults ==
    (/\ last # None /\ last.kw = [app_name |-> Absent, debug |-> Absent]
     /\ \A k \in EnvKeys : environ[k] = Absent
     /\ ~dotenv.exists)
    => last.result = [ok |-> TRUE, app_name |-> "My FastAPI App", debug |-> FALSE]

\* C3 witness: the settings module was loaded in the empty environment.
C3_Witness ==
    /\ last # None /\ last.kw = [app_name |-> Absent, debug |-> Absent]
    /\ \A k \in EnvKeys : environ[k] = Absent
    /\ ~dotenv.exists
    /\ config_mod = "loaded" /\ settings = last.result

\* C4 (as claimed): with DEBUG set to a truthy string in the environment,
\* Settings() succeeds with debug = True, and app_name is the default when
\* APP_NAME is supplied nowhere.
C4_TruthyDebug ==
    (/\ last # None /\ last.kw = [app_name |-> Absent, debug |-> Absent]
     /\ environ["DEBUG"] = "true")
    => /\ last.result.ok
       /\ last.result.debug = TRUE
       /\ (Supplied("APP_NAME") = Absent => last.result.app_name = "My FastAPI App")

\* C5 (as claimed): Settings() succeeds whenever the values supplied for
\* app_name and debug are coercible or absent, whatever other keys the
\* environment and the .env file hold.
C5_OnlyCoercionFails ==
    (/\ last # None /\ last.kw = [app_name |-> Absent, debug |-> Absent]
     /\ Supplied("DEBUG") \in {Absent, "true", "0"})
    => last.result.ok

\* C6: a call of Settings leaves the environment and the .env file as they
\* were, and a call repeated with the same arguments in the same environment
\* has the outcome of the call before it (both fail or both give the same
\* fields).
C6_Idempotent ==
    [][ /\ (last' # None /\ last' # last)
            => (environ' = environ /\ dotenv' = dotenv)
        /\ (last # None /\ last' # None /\ last'.kw = last.kw)
            => last'.result = last.result ]_vars

\* C6 witness: the same call was made twice in a row, reading DEBUG from a
\* .env file that the environment does not override.
C6_Witness ==
    /\ last # None /\ last.n >= 2 /\ last.result.ok
    /\ environ["DEBUG"] = Absent /\ FileVar("DEBUG") = "true"

C8_ImportOrder ==
    /\ health_module # "ok" =>
          /\ main_mod # "loaded"
          /\ response = None
          /\ (app = None \/ app.routes = << >>)
    /\ (response # None /\ response.path = "/" /\ response.status = 200) =>
          /\ main_mod = "loaded"
          /\ app # None
          /\ \E i, j \in 1..Len(app.routes) :
                i < j /\ app.routes[i] = "health.router" /\ app.routes[j] = "/"

\* C8 witness: the import failed at include_router, after the application
\* object was built, and the process ended without an answer.
C8_Witness ==
    /\ health_module = "malformed" /\ main_mod = "failed"
    /\ app # None /\ proc = "exited" /\ response = None

\* C9: in a successful construction each field holds the value of the first
\* source that supplies it: keyword argument, environment variable, .env
\* entry, default.
C9_Precedence ==
    (last # None /\ last.result.ok) =>
        LET rawName  == IF last.kw.app_name # Absent THEN last.kw.app_name
                        ELSE IF environ["APP_NAME"] # Absent THEN environ["APP_NAME"]
                        ELSE IF FileVar("APP_NAME") # Absent THEN FileVar("APP_NAME")
                        ELSE "My FastAPI App"
            rawDebug == IF last.kw.debug # Absent THEN last.kw.debug
                        ELSE IF environ["DEBUG"] # Absent THEN environ["DEBUG"]
                        ELSE IF FileVar("DEBUG") # Absent THEN FileVar("DEBUG")
                        ELSE "False"
        IN  /\ last.result.app_name = rawName
            /\ last.result.debug = (rawDebug = "true")
            /\ rawDebug \in {"true", "0", "False"}

\* C9 witness: app_name comes from the keyword argument over both other
\* sources while debug comes from the environment variable over the .env
\* entry.
C9_Witness ==
    /\ last # None /\ last.result.ok
    /\ last.kw.app_name = "Cli" /\ environ["APP_NAME"] = "Shop"
    /\ FileVar("APP_NAME") = "Api"
    /\ last.kw.debug = Absent /\ environ["DEBUG"] = "true" /\ FileVar("DEBUG") = "0"
    /\ last.result.debug = TRUE

\* C10: a loaded application keeps its metadata and its registry; a step
\* that produces a response changes nothing else, and a response to GET /
\* is never an error.
C10_NoSideEffects ==
    /\ [](main_mod = "loaded" =>
            app = [title       |-> "My FastAPI App",
                   description |-> "Created with DevTools Framework",
                   version     |-> "1.0.0",
                   routes      |-> <<"health.router", "/">>])
    /\ [][ /\ (main_mod = "loaded" => app' = app)
           /\ (response' # response =>
                 /\ UNCHANGED <<environ, dotenv, health_module, proc, config_mod,
                                settings, main_mod, app, last>>
                 /\ (response'.path = "/" => response'.status = 200)) ]_vars

\* C10 witness: GET / was answered by the loaded application next to a
\* loaded settings singleton and a recorded construction.
C10_Witness ==
    /\ response # None /\ response.path = "/" /\ response.status = 200
    /\ config_mod = "loaded" /\ last # None /\ main_mod = "loaded"

====
